---- MODULE Spec2Model ----
(***************************************************************************)
(* Model of the ImageGuard moderation pipeline (src/main.py):              *)
(* on_image_message -> _call_audit_llm -> enforce_penalty.                 *)
(*                                                                         *)
(* Every inbound event is one asynchronous task.  A task runs atomically   *)
(* between two awaits, so each action below is the code from one await     *)
(* point to the next.  Strings that the code inspects character by         *)
(* character (URLs, the report target id) are sequences of one-character   *)
(* strings; the classifier's answer is a sequence of words.                *)
(***************************************************************************)
EXTENDS Integers, Sequences, FiniteSets, TLC

VARIABLES
    config,          \* self.config: the plugin configuration (never assigned after __init__)
    using_provider,  \* what self.context.get_using_provider() returns: TRUE = a provider
    event,           \* event[e]: the inbound AstrMessageEvent handled by task e
    task             \* task[e]: the frame of on_image_message(event[e]): position and locals

vars == <<config, using_provider, event, task>>

(***************************************************************************)
(* Bounds of the model.                                                    *)
(***************************************************************************)
MaxRaw == 2      \* longest raw protocol chain enumerated
MaxMsg == 2      \* longest structured message enumerated

(***************************************************************************)
(* Strings.                                                                *)
(***************************************************************************)
\* str.lower() on one character
LowerChar(c) ==
    CASE c = "G" -> "g"
      [] c = "I" -> "i"
      [] c = "F" -> "f"
      [] c = "P" -> "p"
      [] c = "N" -> "n"
      [] OTHER -> c

\* str.lower()
Lower(s) == [i \in 1..Len(s) |-> LowerChar(s[i])]

\* s.split('?')[0]: the part before the first '?', the whole string without one
BeforeQuery(s) ==
    IF \E i \in 1..Len(s) : s[i] = "?"
    THEN SubSeq(s, 1, (CHOOSE i \in 1..Len(s) :
                          /\ s[i] = "?"
                          /\ \A j \in 1..(i - 1) : s[j] # "?") - 1)
    ELSE s

\* s.endswith(suffix)
EndsWith(s, suffix) ==
    /\ Len(s) >= Len(suffix)
    /\ SubSeq(s, Len(s) - Len(suffix) + 1, Len(s)) = suffix

DotGif == <<".", "g", "i", "f">>

\* mutant: the url is not lowercased before the suffix test
IsGifUrlCaseSensitive(url) == EndsWith(BeforeQuery(url), DotGif)

\* component.url.split('?')[0].lower().endswith('.gif')
IsGifUrl(url) == EndsWith(Lower(BeforeQuery(url)), DotGif)

\* str.strip() for the blank character
RECURSIVE LStrip(_)
LStrip(s) == IF s # <<>> /\ Head(s) = " " THEN LStrip(Tail(s)) ELSE s

RECURSIVE RStrip(_)
RStrip(s) ==
    IF s # <<>> /\ s[Len(s)] = " " THEN RStrip(SubSeq(s, 1, Len(s) - 1)) ELSE s

Strip(s) == LStrip(RStrip(s))

Digits == {"0", "1", "2", "3", "4", "5", "6", "7", "8", "9"}

DigitValue(c) ==
    CASE c = "0" -> 0 [] c = "1" -> 1 [] c = "2" -> 2 [] c = "3" -> 3
      [] c = "4" -> 4 [] c = "5" -> 5 [] c = "6" -> 6 [] c = "7" -> 7
      [] c = "8" -> 8 [] c = "9" -> 9

\* int(s) succeeds on a non-empty string of digits (after the strip)
IntParses(s) == Strip(s) # <<>> /\ \A i \in 1..Len(Strip(s)) : Strip(s)[i] \in Digits

RECURSIVE DigitsValue(_)
DigitsValue(s) ==
    IF s = <<>> THEN 0
    ELSE 10 * DigitsValue(SubSeq(s, 1, Len(s) - 1)) + DigitValue(s[Len(s)])

\* mutant: only the leading digit is read
IntOfLeadingDigit(s) == DigitValue(Strip(s)[1])

\* int(str(report_target).strip())
IntOf(s) == DigitsValue(Strip(s))

(***************************************************************************)
(* 1. Scope gate (on_image_message, "范围控制逻辑").                       *)
(***************************************************************************)
\* event.get_group_id() or "", event.get_sender_id() or ""
GroupIdOf(ev) == ev.group_id
UserIdOf(ev) == ev.user_id

\* is_group = bool(group_id)
IsGroup(ev) == GroupIdOf(ev) # ""

\* mutant: the wildcard "0" is not honoured
InScopeNoWildcard(cfg, ev) ==
    IF IsGroup(ev)
    THEN GroupIdOf(ev) \in cfg.group_scope
    ELSE UserIdOf(ev) \in cfg.private_scope

\* the negation of the two early returns of the scope check
InScope(cfg, ev) ==
    IF IsGroup(ev)
    THEN ~("0" \notin cfg.group_scope /\ GroupIdOf(ev) \notin cfg.group_scope)
    ELSE ~("0" \notin cfg.private_scope /\ UserIdOf(ev) \notin cfg.private_scope)

(***************************************************************************)
(* 2. Sticker filter over the raw protocol chain.                          *)
(* A raw value is [kind, segs]: kind "absent" (no such attribute),         *)
(* "other" (present, not a list) or "list".  A segment is                  *)
(* [isdict, type, data, sub_type]: data is "missing" (no key), "dict" or   *)
(* "nondict"; sub_type is "missing" or the value as written.               *)
(***************************************************************************)
\* raw_chain = [] / event.original_event.message / event.message_obj.raw_message
RawChainOf(ev) ==
    IF ev.original_message.kind # "absent" THEN ev.original_message
    ELSE IF ev.raw_message.kind # "absent" THEN ev.raw_message
    ELSE [kind |-> "list", segs |-> <<>>]

\* int(x) of a sub_type value: these are the values it accepts
SubTypeParses(v) == v \in {"0", "1", "7"}
SubTypeInt(v) == CASE v = "0" -> 0 [] v = "1" -> 1 [] v = "7" -> 7

\* reading one segment: "skip" (not an image dict), "raise", "sticker" or "plain"
SegRead(seg) ==
    IF ~(seg.isdict /\ seg.type = "image") THEN "skip"
    ELSE IF seg.data = "nondict" THEN "raise"                 \* data.get on a non-dict
    ELSE IF seg.data = "missing" \/ seg.sub_type = "missing" THEN "plain"   \* default 0
    ELSE IF ~SubTypeParses(seg.sub_type) THEN "raise"         \* int() fails
    ELSE IF SubTypeInt(seg.sub_type) # 0 THEN "sticker"
    ELSE "plain"

\* the for loop inside the try: "return" at the first sticker, "except" when a
\* segment raises (the loop is left, the exception swallowed), else "fallthrough"
RECURSIVE ScanSegs(_)
ScanSegs(segs) ==
    IF segs = <<>> THEN "fallthrough"
    ELSE LET r == SegRead(Head(segs)) IN
         IF r = "sticker" THEN "return"
         ELSE IF r = "raise" THEN "except"
         ELSE ScanSegs(Tail(segs))

\* the whole sticker block: TRUE iff on_image_message returns from it
StickerStop(ev) ==
    /\ RawChainOf(ev).kind = "list"
    /\ ScanSegs(RawChainOf(ev).segs) = "return"

(***************************************************************************)
(* 3. Image extraction.  A component is [type, url]; url <<>> stands for   *)
(* an empty or missing url.                                                *)
(***************************************************************************)
RECURSIVE ExtractImages(_)
ExtractImages(message) ==
    IF message = <<>> THEN <<>>
    ELSE LET c == Head(message) IN
         IF c.type = "Image" /\ c.url # <<>> /\ ~IsGifUrl(c.url)
         THEN <<c.url>> \o ExtractImages(Tail(message))
         ELSE ExtractImages(Tail(message))

(***************************************************************************)
(* 4. Sampler and 5. rule check.  Probabilities and draws are in tenths.   *)
(***************************************************************************)
\* mutant: a draw equal to the probability is not audited
ShouldAuditStrict(draw, cfg) == draw < cfg.check_probability

\* the negation of: random.random() > check_probability
ShouldAudit(draw, cfg) == ~(draw > cfg.check_probability)

\* mutant: the rule check is skipped
HasRulesAlways(cfg) == TRUE

\* the negation of: not forbidden_texts and not forbidden_descs
HasRules(cfg) == ~(cfg.sensitive_texts = <<>> /\ cfg.forbidden_descriptions = <<>>)

\* the gate at which on_image_message returns before the classifier, or "pass"
GateOutcome(cfg, ev, draw) ==
    IF ~InScope(cfg, ev) THEN "scope"
    ELSE IF StickerStop(ev) THEN "sticker"
    ELSE IF ev.message = <<>> THEN "empty"
    ELSE IF ExtractImages(ev.message) = <<>> THEN "noimage"
    ELSE IF ~ShouldAudit(draw, cfg) THEN "sample"
    ELSE IF ~HasRules(cfg) THEN "norule"
    ELSE "pass"

\* random.random() is evaluated iff the code reaches the sampler line
DrawTaken(cfg, ev) ==
    /\ InScope(cfg, ev)
    /\ ~StickerStop(ev)
    /\ ev.message # <<>>
    /\ ExtractImages(ev.message) # <<>>

(***************************************************************************)
(* 7. Verdict parsing.  A response is a sequence of words.                 *)
(***************************************************************************)
\* str.upper() of a word
Upper(w) ==
    CASE w = "result:" -> "RESULT:"
      [] w = "Result:" -> "RESULT:"
      [] w = "violation" -> "VIOLATION"
      [] w = "safe" -> "SAFE"
      [] w = "reason:" -> "REASON:"
      [] OTHER -> w

IsSpace(w) == w \in {" ", "\n"}

\* re.search(r"RESULT:\s*(VIOLATION|SAFE)", text, re.IGNORECASE) matches at word i
\* with its group at word j
LabelAt(text, i, j) ==
    /\ i \in 1..Len(text) /\ j \in (i + 1)..Len(text)
    /\ Upper(text[i]) = "RESULT:"
    /\ \A k \in (i + 1)..(j - 1) : IsSpace(text[k])
    /\ Upper(text[j]) \in {"VIOLATION", "SAFE"}

HasLabel(text) == \E i, j \in 1..Len(text) : LabelAt(text, i, j)

\* result_match.group(1).upper(): the group of the leftmost match
FirstLabel(text) ==
    LET i == CHOOSE a \in 1..Len(text) :
                 /\ \E j \in 1..Len(text) : LabelAt(text, a, j)
                 /\ \A b \in 1..(a - 1) : ~\E j \in 1..Len(text) : LabelAt(text, b, j)
        j == CHOOSE b \in 1..Len(text) : LabelAt(text, i, b)
    IN Upper(text[j])

\* "VIOLATION" in response_text.upper()
MentionsViolation(text) == \E i \in 1..Len(text) : Upper(text[i]) = "VIOLATION"

\* mutant: the label is ignored, the word alone decides
ParseViolationAnywhere(text) == MentionsViolation(text)

\* is_violation after the two ifs
ParseViolation(text) ==
    \/ HasLabel(text) /\ FirstLabel(text) = "VIOLATION"
    \/ ~HasLabel(text) /\ MentionsViolation(text)

(***************************************************************************)
(* Frames.  log is the task's trace of remote calls: [op, ph] with ph      *)
(* "call" when the call is issued, "ok" / "err" when it returns / raises.  *)
(***************************************************************************)
NoBanArg == [group_id |-> "", user_id |-> "", duration |-> 0]
\* the glyph of one flag in status_str: "success" for the check mark, "failure" for the cross
Glyph(flag) == IF flag THEN "success" ELSE "failure"

NoReport == [target |-> 0, recall_glyph |-> "none", ban_glyph |-> "none", file |-> <<>>]
NoAnswer == [kind |-> "none", exc |-> "none", text |-> <<>>]

\* the frame of on_image_message at its first line
InitFrame ==
    [pc |-> "start",         \* where the task is suspended
     gate |-> "none",        \* the gate at which it returned, "pass", or "none" before
     image_urls |-> <<>>,
     draws |-> <<>>,         \* the values random.random() returned to this task
     response |-> NoAnswer,  \* what _call_audit_llm returned
     verdict |-> "none",     \* "none" until parsed, then "safe" or "violation"
     enforce |-> "none",     \* enforce_penalty: "none", "running", "noop", "returned", "raised"
     violation_img_url |-> <<>>,   \* enforce_penalty's parameter
     recalled |-> FALSE,
     banned |-> FALSE,
     delete_arg |-> "",      \* message_id passed to delete_msg
     ban_arg |-> NoBanArg,   \* arguments passed to set_group_ban
     report |-> NoReport,    \* what send_private_msg was called with
     log |-> <<>>,
     caught |-> "none",      \* the exception logged by "Check failed", if any
     raised |-> FALSE]       \* on_image_message ended by raising

\* the outcome flags enforce_penalty keeps: its locals recalled and banned
ReceiptOf(f) == [recalled |-> f.recalled, banned |-> f.banned]

Called(f, op) == [f EXCEPT !.log = Append(@, [op |-> op, ph |-> "call"])]
Returned(f, op) == [f EXCEPT !.log = Append(@, [op |-> op, ph |-> "ok"])]
Failed(f, op) == [f EXCEPT !.log = Append(@, [op |-> op, ph |-> "err"])]

(***************************************************************************)
(* Exceptions.  Every except clause of the file is `except Exception`.     *)
(***************************************************************************)
Exceptions ==
    {"ValueError", "TypeError", "KeyError", "TimeoutException", "ConnectError",
     "HTTPStatusError", "ProviderError", "ActionFailed"}

\* mutant: the handler catches HTTP errors only
HandlerCatchesHttpOnly(exc) ==
    exc \in {"TimeoutException", "ConnectError", "HTTPStatusError"}

\* on_image_message: except Exception as e: logger.error("Check failed")
HandlerCatches(exc) == exc \in Exceptions
\* enforce_penalty A: except Exception as e: logger.warning("Silent Recall failed")
RecallCatches(exc) == exc \in Exceptions
\* mutant: the ban call is not wrapped in a try
BanCatchesNothing(exc) == FALSE

\* enforce_penalty B: except Exception as e: logger.warning("Silent Ban failed")
BanCatches(exc) == exc \in Exceptions
\* enforce_penalty C: except Exception as e: logger.error("Report failed")
ReportCatches(exc) == exc \in Exceptions

\* an exception reaches the try of on_image_message
RaiseInHandler(f, exc) ==
    IF HandlerCatches(exc)
    THEN [f EXCEPT !.pc = "done", !.caught = exc]
    ELSE [f EXCEPT !.pc = "done", !.raised = TRUE]

\* an exception leaves enforce_penalty
RaiseFromEnforce(f, exc) == RaiseInHandler([f EXCEPT !.enforce = "raised"], exc)

(***************************************************************************)
(* enforce_penalty.                                                        *)
(***************************************************************************)
\* client = event.bot if the attribute exists, else event.client, else None.
\* Values: "absent" (no attribute), "none" (falsy), "noapi", "nocall", "ok".
ClientOf(ev) ==
    IF ev.bot # "absent" THEN ev.bot
    ELSE IF ev.client # "absent" THEN ev.client
    ELSE "none"

\* mutant: only a missing client is checked, not its api
NoCapabilityNoneOnly(ev) == ClientOf(ev) = "none"

\* if not client: return / if not hasattr(client, "api") or not hasattr(client.api, "call_action"): return
NoCapability(ev) == ClientOf(ev) = "none" \/ ClientOf(ev) \in {"noapi", "nocall"}

\* C. the report step up to its await, or to the end of enforce_penalty
ReportStep(cfg, ev, f) ==
    IF cfg.report_target_id = <<>>
    THEN [f EXCEPT !.pc = "done", !.enforce = "returned"]
    ELSE IF ~IntParses(cfg.report_target_id)
    THEN IF ReportCatches("ValueError")
         THEN [f EXCEPT !.pc = "done", !.enforce = "returned"]
         ELSE RaiseFromEnforce(f, "ValueError")
    ELSE [Called(f, "send_private_msg") EXCEPT
            !.pc = "await_report",
            !.report = [target |-> IntOf(cfg.report_target_id),
                        recall_glyph |-> Glyph(f.recalled),
                        ban_glyph |-> Glyph(f.banned),
                        file |-> f.violation_img_url]]

\* mutant: a duration of 0 still bans
BanGuardNonNegative(cfg, ev) == cfg.ban_duration >= 0 /\ IsGroup(ev)

\* if duration > 0 and is_group
BanGuard(cfg, ev) == cfg.ban_duration > 0 /\ IsGroup(ev)

\* B. the ban step up to its await, else on to the report step
BanStep(cfg, ev, f) ==
    IF BanGuard(cfg, ev)
    THEN [Called(f, "set_group_ban") EXCEPT
            !.pc = "await_ban",
            !.ban_arg = [group_id |-> ev.group_id, user_id |-> ev.user_id,
                         duration |-> cfg.ban_duration]]
    ELSE ReportStep(cfg, ev, f)

\* mutant: recall is attempted for private events too
RecallGuardNoGroup(cfg, ev) == cfg.enable_recall

\* if self.config.get("enable_recall", True) and is_group
RecallGuard(cfg, ev) == cfg.enable_recall /\ IsGroup(ev)

\* msg_id after the hasattr probe: "" stands for None or an empty id
MsgIdOf(ev) == IF ev.has_message_id THEN ev.message_id ELSE ""

\* A. the recall step up to its await, else on to the ban step
RecallStep(cfg, ev, f) ==
    IF RecallGuard(cfg, ev) /\ MsgIdOf(ev) # ""
    THEN [Called(f, "delete_msg") EXCEPT
            !.pc = "await_recall", !.delete_arg = MsgIdOf(ev)]
    ELSE BanStep(cfg, ev, f)

\* enforce_penalty from its first line to its first await or its return
EnterEnforce(cfg, ev, f, url) ==
    IF NoCapability(ev)
    THEN [f EXCEPT !.pc = "done", !.enforce = "noop"]
    ELSE RecallStep(cfg, ev, [f EXCEPT !.enforce = "running",
                                       !.violation_img_url = url])

\* mutant: the last extracted image is taken as evidence
EvidenceLast(f) == f.image_urls[Len(f.image_urls)]

\* violation_img_url = image_urls[0]
EvidenceOf(f) == f.image_urls[1]

(***************************************************************************)
(* _call_audit_llm and the code after it in on_image_message.              *)
(***************************************************************************)
\* mutant: the key alone selects the direct transport
UseDirectKeyOnly(cfg) == cfg.llm_api_key # ""

\* if custom_key and custom_base
UseDirect(cfg) == cfg.llm_api_key # "" /\ cfg.llm_base_url # ""

\* mutant: the penalty is applied whatever the verdict
AfterResponseAnyVerdict(cfg, ev, f, text) ==
    EnterEnforce(cfg, ev,
                 [f EXCEPT !.verdict = IF ParseViolation(text) THEN "violation" ELSE "safe"],
                 EvidenceOf(f))

\* on_image_message from the classifier's answer to the next await or the end
AfterResponse(cfg, ev, f, text) ==
    IF ParseViolation(text)
    THEN EnterEnforce(cfg, ev, [f EXCEPT !.verdict = "violation"], EvidenceOf(f))
    ELSE [f EXCEPT !.verdict = "safe", !.pc = "done"]

\* on_image_message from its first line to the first await or return
StartFrame(cfg, prov, ev, f, draw) ==
    LET g == GateOutcome(cfg, ev, draw)
        f1 == [f EXCEPT !.gate = g,
                        !.draws = IF DrawTaken(cfg, ev) THEN Append(@, draw) ELSE @,
                        !.image_urls = IF g \in {"scope", "sticker", "empty"}
                                       THEN @ ELSE ExtractImages(ev.message)]
    IN IF g # "pass" THEN [f1 EXCEPT !.pc = "done"]
       ELSE IF UseDirect(cfg) THEN [Called(f1, "http") EXCEPT !.pc = "await_http"]
       ELSE IF ~prov THEN RaiseInHandler(f1, "ValueError")
       ELSE [Called(f1, "provider") EXCEPT !.pc = "await_provider"]

(***************************************************************************)
(* What the remote collaborators can answer.                               *)
(***************************************************************************)
Responses ==
    {<<"REASON:", " ", "nudity", "\n", "RESULT:", " ", "VIOLATION">>,
     <<"RESULT:", " ", "SAFE">>,
     <<"result:", "violation">>,
     <<"this", " ", "VIOLATION">>,
     <<"RESULT:", " ", "SAFE", "\n", "VIOLATION">>,
     <<"RESULT:", " ", "SAFE", "\n", "RESULT:", " ", "VIOLATION">>,
     <<"Result:", "VIOLATION", " ", "result:", "safe">>,
     <<"RESULT:", "maybe", "VIOLATION">>,
     <<"fine">>,
     <<>>}

Answer(kind, exc, text) == [kind |-> kind, exc |-> exc, text |-> text]

\* client.post / raise_for_status / resp.json()[...]: an exception, a null
\* content, or a text
HttpAnswers ==
    {Answer("exc", x, <<>>) :
        x \in {"TimeoutException", "ConnectError", "HTTPStatusError", "KeyError"}}
    \cup {Answer("null", "none", <<>>)}
    \cup {Answer("text", "none", t) : t \in Responses}

\* provider.text_chat(...).completion_text
ProviderAnswers ==
    {Answer("exc", "ProviderError", <<>>), Answer("null", "none", <<>>)}
    \cup {Answer("text", "none", t) : t \in Responses}

\* on_image_message once `await self._call_audit_llm` has an outcome
ClassifierAnswer(cfg, ev, f, op, ans) ==
    IF ans.kind = "exc" THEN RaiseInHandler(Failed(f, op), ans.exc)
    ELSE IF ans.kind = "null"
    THEN RaiseInHandler([Returned(f, op) EXCEPT !.response = ans], "TypeError")
    ELSE AfterResponse(cfg, ev, [Returned(f, op) EXCEPT !.response = ans], ans.text)

\* the values random.random() can return, in tenths
Draws == {0, 5, 9}

(***************************************************************************)
(* Actions: one per resumption of a task.                                  *)
(***************************************************************************)
EvIds == DOMAIN event

\* mutant: the frame is kept on the plugin instance, shared by all tasks
ResumeShared(e, f) ==
    /\ task' = [o \in EvIds |-> f]
    /\ UNCHANGED <<config, using_provider, event>>

\* the locals of one call of on_image_message belong to that call alone
Resume(e, f) ==
    /\ task' = [task EXCEPT ![e] = f]
    /\ UNCHANGED <<config, using_provider, event>>

\* the event loop starts on_image_message(event[e])
Start(e) ==
    /\ task[e].pc = "start"
    /\ \E draw \in Draws :
          Resume(e, StartFrame(config, using_provider, event[e], task[e], draw))

\* the httpx call of _call_audit_llm completes (timeout=30 bounds it)
HttpReturn(e) ==
    /\ task[e].pc = "await_http"
    /\ \E ans \in HttpAnswers :
          Resume(e, ClassifierAnswer(config, event[e], task[e], "http", ans))

\* provider.text_chat completes
ProviderReturn(e) ==
    /\ task[e].pc = "await_provider"
    /\ \E ans \in ProviderAnswers :
          Resume(e, ClassifierAnswer(config, event[e], task[e], "provider", ans))

\* mutant: recalled is set whether or not the call succeeded
AfterRecallOptimistic(cfg, ev, f, ok) ==
    IF ok
    THEN BanStep(cfg, ev, [Returned(f, "delete_msg") EXCEPT !.recalled = TRUE])
    ELSE BanStep(cfg, ev, [Failed(f, "delete_msg") EXCEPT !.recalled = TRUE])

\* mutant: a failed recall is tried again
AfterRecallRetry(cfg, ev, f, ok) ==
    IF ok
    THEN BanStep(cfg, ev, [Returned(f, "delete_msg") EXCEPT !.recalled = TRUE])
    ELSE RecallStep(cfg, ev, Failed(f, "delete_msg"))

\* enforce_penalty once call_action('delete_msg') has an outcome
AfterRecall(cfg, ev, f, ok) ==
    IF ok
    THEN BanStep(cfg, ev, [Returned(f, "delete_msg") EXCEPT !.recalled = TRUE])
    ELSE IF RecallCatches("ActionFailed")
    THEN BanStep(cfg, ev, Failed(f, "delete_msg"))
    ELSE RaiseFromEnforce(Failed(f, "delete_msg"), "ActionFailed")

\* mutant: banned is set before the call is known to have succeeded
AfterBanOptimistic(cfg, ev, f, ok) ==
    IF ok
    THEN ReportStep(cfg, ev, [Returned(f, "set_group_ban") EXCEPT !.banned = TRUE])
    ELSE ReportStep(cfg, ev, [Failed(f, "set_group_ban") EXCEPT !.banned = TRUE])

\* enforce_penalty once call_action("set_group_ban") has an outcome
AfterBan(cfg, ev, f, ok) ==
    IF ok
    THEN ReportStep(cfg, ev, [Returned(f, "set_group_ban") EXCEPT !.banned = TRUE])
    ELSE IF BanCatches("ActionFailed")
    THEN ReportStep(cfg, ev, Failed(f, "set_group_ban"))
    ELSE RaiseFromEnforce(Failed(f, "set_group_ban"), "ActionFailed")

\* enforce_penalty once call_action("send_private_msg") has an outcome
AfterReport(cfg, ev, f, ok) ==
    IF ok
    THEN [Returned(f, "send_private_msg") EXCEPT !.pc = "done", !.enforce = "returned"]
    ELSE IF ReportCatches("ActionFailed")
    THEN [Failed(f, "send_private_msg") EXCEPT !.pc = "done", !.enforce = "returned"]
    ELSE RaiseFromEnforce(Failed(f, "send_private_msg"), "ActionFailed")

RecallReturn(e) ==
    /\ task[e].pc = "await_recall"
    /\ \E ok \in BOOLEAN : Resume(e, AfterRecall(config, event[e], task[e], ok))

BanReturn(e) ==
    /\ task[e].pc = "await_ban"
    /\ \E ok \in BOOLEAN : Resume(e, AfterBan(config, event[e], task[e], ok))

ReportReturn(e) ==
    /\ task[e].pc = "await_report"
    /\ \E ok \in BOOLEAN : Resume(e, AfterReport(config, event[e], task[e], ok))

StartSome == \E e \in EvIds : Start(e)
HttpReturnSome == \E e \in EvIds : HttpReturn(e)
ProviderReturnSome == \E e \in EvIds : ProviderReturn(e)
RecallReturnSome == \E e \in EvIds : RecallReturn(e)
BanReturnSome == \E e \in EvIds : BanReturn(e)
ReportReturnSome == \E e \in EvIds : ReportReturn(e)

Next ==
    \/ StartSome
    \/ HttpReturnSome
    \/ ProviderReturnSome
    \/ RecallReturnSome
    \/ BanReturnSome
    \/ ReportReturnSome

(***************************************************************************)
(* Inputs: the configurations and events the handler is run on.            *)
(***************************************************************************)
SeqsUpTo(S, n) == UNION {[1..k -> S] : k \in 0..n}

UrlPng == <<"a", ".", "p", "n", "g">>
UrlJpg == <<"b", ".", "j", "p", "g">>
UrlGif == <<"a", ".", "g", "i", "f">>
UrlGifUpper == <<"a", ".", "G", "I", "F">>
UrlGifQuery == <<"a", ".", "g", "i", "f", "?", "x">>
UrlPngQueryGif == <<"b", ".", "p", "n", "g", "?", ".", "g", "i", "f">>

Plain == [type |-> "Plain", url |-> <<>>]
Image(url) == [type |-> "Image", url |-> url]

Components ==
    {Plain, Image(<<>>), Image(UrlPng), Image(UrlJpg), Image(UrlGif),
     Image(UrlGifUpper), Image(UrlGifQuery), Image(UrlPngQueryGif)}

Messages == SeqsUpTo(Components, MaxMsg)

Seg(isdict, type, data, sub) ==
    [isdict |-> isdict, type |-> type, data |-> data, sub_type |-> sub]

SegNotDict == Seg(FALSE, "image", "dict", "1")
SegText == Seg(TRUE, "text", "dict", "1")
SegImage == Seg(TRUE, "image", "dict", "0")
SegImageNoData == Seg(TRUE, "image", "missing", "missing")
SegImageNoSub == Seg(TRUE, "image", "dict", "missing")
SegSticker == Seg(TRUE, "image", "dict", "1")
SegSticker7 == Seg(TRUE, "image", "dict", "7")
SegBadSub == Seg(TRUE, "image", "dict", "abc")
SegBadData == Seg(TRUE, "image", "nondict", "missing")

Segments ==
    {SegNotDict, SegText, SegImage, SegImageNoData, SegImageNoSub, SegSticker,
     SegSticker7, SegBadSub, SegBadData}

RawAbsent == [kind |-> "absent", segs |-> <<>>]
RawOther == [kind |-> "other", segs |-> <<>>]
RawList(segs) == [kind |-> "list", segs |-> segs]

RawValues == {RawAbsent, RawOther} \cup {RawList(c) : c \in SeqsUpTo(Segments, MaxRaw)}

\* report_target_id: unset, "10", " 10 ", "ab", " "
TargetUnset == <<>>
TargetTen == <<"1", "0">>
TargetPadded == <<" ", "1", "0", " ">>
TargetWord == <<"a", "b">>
TargetBlank == <<" ">>
Targets == {TargetUnset, TargetTen, TargetPadded, TargetWord, TargetBlank}

ConfigsOf(gs, ps, pr, st, fd, key, base, rec, dur, tgt) ==
    [group_scope : gs, private_scope : ps, check_probability : pr,
     sensitive_texts : st, forbidden_descriptions : fd,
     llm_api_key : key, llm_base_url : base,
     enable_recall : rec, ban_duration : dur, report_target_id : tgt]

EventsOf(gid, uid, orig, raw, msg, bot, client, hasid, mid) ==
    [group_id : gid, user_id : uid, original_message : orig, raw_message : raw,
     message : msg, bot : bot, client : client,
     has_message_id : hasid, message_id : mid]

ScopeLists(ids) == SUBSET ({"0"} \cup ids)
RuleLists(w) == {<<>>, <<w>>}

\* scope lists against group and sender ids
ScopeInputs ==
    /\ config \in ConfigsOf(ScopeLists({"g1"}), ScopeLists({"u1"}), {10},
                            {<<"t">>}, {<<>>}, {"k"}, {"u"},
                            {TRUE}, {60}, {TargetTen})
    /\ using_provider = TRUE
    /\ event \in [{1} -> EventsOf({"", "g1", "g2"}, {"u1", "u2"},
                                  {RawList(<<SegImage>>)}, {RawAbsent},
                                  {<<Image(UrlPng)>>}, {"ok"}, {"absent"},
                                  {TRUE}, {"m1"})]

\* raw chains of every shape
StickerInputs ==
    /\ config \in ConfigsOf({{"0"}}, {{}}, {10}, {<<"t">>}, {<<>>}, {"k"}, {"u"},
                            {TRUE}, {60}, {TargetTen})
    /\ using_provider = TRUE
    /\ event \in [{1} -> EventsOf({"g1"}, {"u1"}, RawValues,
                                  {RawAbsent, RawOther, RawList(<<SegSticker>>)},
                                  {<<Image(UrlPng), Image(UrlJpg)>>}, {"ok"}, {"absent"},
                                  {TRUE}, {"m1"})]

\* messages of every shape, the sampler and the rule lists
ExtractInputs ==
    /\ config \in ConfigsOf({{"0"}}, {{}}, {0, 5, 10}, RuleLists("t"), RuleLists("d"),
                            {"k"}, {"u"}, {TRUE}, {60}, {TargetTen})
    /\ using_provider = TRUE
    /\ event \in [{1} -> EventsOf({"g1"}, {"u1"}, {RawList(<<SegImage>>)}, {RawAbsent},
                                  Messages, {"ok"}, {"absent"}, {TRUE}, {"m1"})]

\* enforcement settings against the event's capabilities
EnforceInputs ==
    /\ config \in ConfigsOf({{"0"}}, {{"0"}}, {10}, {<<"t">>}, {<<>>},
                            {"k"}, {"u"},
                            BOOLEAN, {0 - 1, 0, 60}, Targets)
    /\ using_provider = TRUE
    /\ event \in [{1} -> EventsOf({"", "g1"}, {"u1"}, {RawAbsent}, {RawAbsent},
                                  {<<Image(UrlGif), Image(UrlPng)>>},
                                  {"absent", "none", "noapi", "nocall", "ok"},
                                  {"absent", "none", "ok"},
                                  BOOLEAN, {"", "m1"})]

\* two values of every setting, all combinations
MixedInputs ==
    /\ config \in ConfigsOf({{"0"}, {"g2"}}, {{}}, {0, 10}, RuleLists("t"), {<<>>},
                            {"", "k"}, {"", "u"},
                            BOOLEAN, {0, 60}, {TargetUnset, TargetTen, TargetWord})
    /\ using_provider \in BOOLEAN
    /\ event \in [{1} -> EventsOf({"g1"}, {"u1"},
                                  {RawList(<<SegImage>>), RawList(<<SegText, SegSticker>>)},
                                  {RawAbsent},
                                  {<<Image(UrlPng)>>, <<Image(UrlGif)>>},
                                  {"ok", "none"}, {"absent"}, {TRUE}, {"m1"})]

Init ==
    /\ \/ ScopeInputs
       \/ StickerInputs
       \/ ExtractInputs
       \/ EnforceInputs
       \/ MixedInputs
    /\ task = [e \in DOMAIN event |-> InitFrame]

Spec == Init /\ [][Next]_vars

(***************************************************************************)
(* Vocabulary of the properties.                                           *)
(***************************************************************************)
BackendOps == {"delete_msg", "set_group_ban", "send_private_msg"}
ClassifierOps == {"http", "provider"}

Entry(op, ph) == [op |-> op, ph |-> ph]
Has(f, op, ph) == \E i \in DOMAIN f.log : f.log[i] = Entry(op, ph)

\* positions of the log at which a backend action / a classifier transport is invoked
BackendCalls(f) == {i \in DOMAIN f.log : f.log[i].ph = "call" /\ f.log[i].op \in BackendOps}
ClassifierCalls(f) ==
    {i \in DOMAIN f.log : f.log[i].ph = "call" /\ f.log[i].op \in ClassifierOps}

\* the classifier call of this task failed: a transport exception, an answer
\* that is no text, or no transport at all
ClassifierFailed(e) ==
    \/ \E op \in ClassifierOps : Has(task[e], op, "err")
    \/ task[e].response.kind = "null"
    \/ /\ task[e].gate = "pass"
       /\ ~(config.llm_api_key # "" /\ config.llm_base_url # "")
       /\ ~using_provider

(***************************************************************************)
(* C1: a backend action (delete_msg, set_group_ban, send_private_msg) is   *)
(* invoked for an event only after the classifier returned an answer that  *)
(* was parsed as a violation; an answer parsed as safe leads to none.      *)
(***************************************************************************)
C1_ActionsOnlyAfterViolation ==
    \A e \in EvIds :
        /\ \A i \in BackendCalls(task[e]) :
              /\ task[e].verdict = "violation"
              /\ task[e].response.kind = "text"
              /\ \E j \in 1..(i - 1) :
                    task[e].log[j].op \in ClassifierOps /\ task[e].log[j].ph = "ok"
        /\ task[e].verdict = "safe" => BackendCalls(task[e]) = {}

\* a violation answered by all three actions, each returning without error
C1_Witness ==
    \E e \in EvIds :
        /\ task[e].pc = "done"
        /\ task[e].verdict = "violation"
        /\ \A op \in BackendOps : Has(task[e], op, "ok")

(***************************************************************************)
(* C2: fail open.  When the classifier call fails (no usable transport, a  *)
(* transport exception, a malformed answer), no backend action is invoked  *)
(* for the event and on_image_message ends without raising.                *)
(***************************************************************************)
C2_FailOpen ==
    \A e \in EvIds :
        ClassifierFailed(e) =>
            /\ BackendCalls(task[e]) = {}
            /\ task[e].pc = "done"
            /\ ~task[e].raised
            /\ task[e].caught \in Exceptions
            /\ task[e].verdict = "none"
            /\ task[e].enforce = "none"

\* the fallback was needed and there was no provider
C2_Witness ==
    \E e \in EvIds :
        /\ ClassifierFailed(e)
        /\ task[e].caught = "ValueError"
        /\ task[e].log = <<>>
        /\ config.report_target_id # <<>>

(***************************************************************************)
(* C3: sticker hard stop.  If any raw segment of type "image" reports a    *)
(* non-zero sub-type, the pipeline aborts for the event: the classifier is *)
(* never called and no action is invoked, wherever the segment stands in   *)
(* the raw chain and whatever the other raw segments hold.                 *)
(***************************************************************************)
\* a raw segment of type "image" whose sub_type reads as a non-zero integer
ReportsSticker(seg) ==
    /\ seg.isdict /\ seg.type = "image" /\ seg.data = "dict"
    /\ seg.sub_type \in {"1", "7"}

HasStickerSegment(ev) ==
    /\ RawChainOf(ev).kind = "list"
    /\ \E i \in DOMAIN RawChainOf(ev).segs : ReportsSticker(RawChainOf(ev).segs[i])

\* C3: an event whose raw chain holds a sticker segment never reaches the
\* classifier nor a backend action
C3_StickerHardStop ==
    \A e \in EvIds :
        HasStickerSegment(event[e]) =>
            /\ task[e].log = <<>>
            /\ task[e].gate \in {"none", "scope", "sticker"}

(***************************************************************************)
(* C4: enforcement independence.  A failing action never prevents the      *)
(* later actions and never propagates out of enforce_penalty; if           *)
(* set_group_ban throws, recalled keeps the value the recall step gave it, *)
(* the report's recall status is unaffected and send_private_msg is still  *)
(* invoked when a report is due.                                           *)
(***************************************************************************)
BanWanted(e) == config.ban_duration > 0 /\ event[e].group_id # ""

\* the report target is configured and reads as an integer
TargetUsable == config.report_target_id # <<>> /\ IntParses(config.report_target_id)

\* the report target is configured
TargetConfigured == config.report_target_id # <<>>

Independence(e, reportDue) ==
    LET f == task[e] IN
    /\ f.enforce # "raised" /\ ~f.raised
    /\ (\E op \in BackendOps : Has(f, op, "err")) => f.caught = "none"
    /\ Has(f, "delete_msg", "err") =>
          /\ ~f.recalled
          /\ BanWanted(e) => Has(f, "set_group_ban", "call")
          /\ ~BanWanted(e) /\ reportDue => Has(f, "send_private_msg", "call")
    /\ Has(f, "set_group_ban", "err") =>
          /\ ~f.banned
          /\ f.recalled = Has(f, "delete_msg", "ok")
          /\ reportDue =>
                /\ Has(f, "send_private_msg", "call")
                /\ f.report.recall_glyph = Glyph(Has(f, "delete_msg", "ok"))
    /\ Has(f, "send_private_msg", "err") => f.pc = "done" /\ f.enforce = "returned"

\* C4 as amended: the report is due when the target is configured and reads as
\* an integer
C4_Independence == \A e \in EvIds : Independence(e, TargetUsable)

\* C4 as stated: the report is due when a target is configured
C4_AsStated == \A e \in EvIds : Independence(e, TargetConfigured)

\* the ban failed after a successful recall and the report says so
C4_Witness ==
    \E e \in EvIds :
        /\ Has(task[e], "delete_msg", "ok")
        /\ Has(task[e], "set_group_ban", "err")
        /\ Has(task[e], "send_private_msg", "ok")
        /\ task[e].report.recall_glyph = "success"
        /\ task[e].report.ban_glyph = "failure"

(***************************************************************************)
(* C5: scope gate.  A group event passes iff "0" or its group id is in the *)
(* group scope list, a private event iff "0" or the sender id is in the    *)
(* private scope list; with the defaults every group event passes and no   *)
(* private event does; a rejected event causes no draw, no classifier call *)
(* and no backend action.                                                  *)
(***************************************************************************)
C5_ScopeGate ==
    \A e \in EvIds :
        LET f == task[e]
            ev == event[e]
            passed == f.gate # "scope"
        IN f.pc # "start" =>
            /\ ev.group_id # "" =>
                  (passed <=> ("0" \in config.group_scope
                               \/ ev.group_id \in config.group_scope))
            /\ ev.group_id = "" =>
                  (passed <=> ("0" \in config.private_scope
                               \/ ev.user_id \in config.private_scope))
            /\ config.group_scope = {"0"} /\ config.private_scope = {} =>
                  (passed <=> ev.group_id # "")
            /\ ~passed => f.draws = <<>> /\ f.log = <<>> /\ f.pc = "done"

\* a group listed by id, without the wildcard, reaches the classifier
C5_Witness ==
    \E e \in EvIds :
        /\ "0" \notin config.group_scope
        /\ event[e].group_id \in config.group_scope
        /\ ClassifierCalls(task[e]) # {}

(***************************************************************************)
(* C6: the classifier is called only if every gate passed: event in scope, *)
(* no sticker stop, a non-GIF image extracted, the sampler selected the    *)
(* event, and one of the two rule lists is non-empty.  With both lists     *)
(* empty the classifier is never called and no action is invoked.          *)
(***************************************************************************)
ScopedIn(e) ==
    IF event[e].group_id # ""
    THEN "0" \in config.group_scope \/ event[e].group_id \in config.group_scope
    ELSE "0" \in config.private_scope \/ event[e].user_id \in config.private_scope

HasStillImage(e) ==
    \E i \in DOMAIN event[e].message :
        /\ event[e].message[i].type = "Image"
        /\ event[e].message[i].url # <<>>
        /\ ~IsGifUrl(event[e].message[i].url)

RulesEmpty == config.sensitive_texts = <<>> /\ config.forbidden_descriptions = <<>>

\* C6: a classifier call implies every gate passed; empty rule lists imply no call
C6_ClassifierOnlyAfterGates ==
    \A e \in EvIds :
        LET f == task[e] IN
        /\ ClassifierCalls(f) # {} =>
              /\ ScopedIn(e)
              /\ ~StickerStop(event[e])
              /\ HasStillImage(e) /\ f.image_urls # <<>>
              /\ Len(f.draws) = 1 /\ f.draws[1] <= config.check_probability
              /\ ~RulesEmpty
        /\ RulesEmpty => f.log = <<>>
        /\ f.gate = "norule" => Len(f.draws) = 1 /\ f.image_urls # <<>>

\* the classifier is called with only the description list filled
C6_Witness ==
    \E e \in EvIds :
        /\ ClassifierCalls(task[e]) # {}
        /\ config.sensitive_texts = <<>>
        /\ config.forbidden_descriptions # <<>>
        /\ config.check_probability = 5

(***************************************************************************)
(* C7: report sequencing and truthfulness.  send_private_msg is invoked    *)
(* only after the recall and ban steps have finished, and the report shows *)
(* the success glyph for recall iff delete_msg was invoked and returned    *)
(* without error, for ban iff set_group_ban was invoked and returned       *)
(* without error; otherwise the failure glyph.                             *)
(***************************************************************************)
C7_ReportAfterAndTruthful ==
    \A e \in EvIds :
        LET f == task[e] IN
        \A i \in DOMAIN f.log :
            f.log[i] = Entry("send_private_msg", "call") =>
                /\ \A j \in DOMAIN f.log :
                      f.log[j].op \in {"delete_msg", "set_group_ban"} => j < i
                /\ \A j \in 1..(i - 1) :
                      f.log[j].ph = "call" /\ f.log[j].op \in {"delete_msg", "set_group_ban"} =>
                          \E k \in (j + 1)..(i - 1) :
                              f.log[k].op = f.log[j].op /\ f.log[k].ph \in {"ok", "err"}
                /\ f.report.recall_glyph =
                      IF Has(f, "delete_msg", "ok") THEN "success" ELSE "failure"
                /\ f.report.ban_glyph =
                      IF Has(f, "set_group_ban", "ok") THEN "success" ELSE "failure"

\* a report sent after a failed recall and a successful ban
C7_Witness ==
    \E e \in EvIds :
        /\ Has(task[e], "delete_msg", "err")
        /\ Has(task[e], "set_group_ban", "ok")
        /\ Has(task[e], "send_private_msg", "call")
        /\ task[e].report.recall_glyph = "failure"
        /\ task[e].report.ban_glyph = "success"

(***************************************************************************)
(* C8: no remote call blocks the pipeline indefinitely: the handling of    *)
(* every event eventually finishes, even when a remote collaborator never  *)
(* responds.                                                               *)
(*                                                                         *)
(* FairSpec states what the code's scheduling guarantees: a started task   *)
(* runs, and the httpx call completes (timeout=30 makes it raise at the    *)
(* latest).  provider.text_chat and client.api.call_action are awaited     *)
(* with no timeout, so nothing obliges them to complete.                   *)
(***************************************************************************)
FairInit ==
    /\ MixedInputs
    /\ task = [e \in DOMAIN event |-> InitFrame]

FairSpec ==
    /\ FairInit
    /\ [][Next]_vars
    /\ WF_vars(StartSome)
    /\ WF_vars(HttpReturnSome)

AllDone == \A e \in EvIds : task[e].pc = "done"

\* C8: the handling of every event eventually finishes
C8_EveryEventFinishes == <>AllDone

(***************************************************************************)
(* C9: if the event exposes no action-invocation capability (no bot or     *)
(* client object, or one without api.call_action), enforcement is a no-op: *)
(* no backend action is invoked, no report is sent, no error is raised.    *)
(***************************************************************************)
ExposesCapability(e) == event[e].bot = "ok" \/ event[e].client = "ok"

\* C9: without a capability no action is invoked, no report built, nothing raised
C9_NoCapabilityNoOp ==
    \A e \in EvIds :
        LET f == task[e] IN
        ~ExposesCapability(e) =>
            /\ BackendCalls(f) = {}
            /\ f.report = NoReport
            /\ f.enforce \in {"none", "noop"}
            /\ ~f.raised
            /\ f.verdict = "violation" =>
                  f.pc = "done" /\ f.enforce = "noop" /\ f.caught = "none"

\* a violation on an event whose client has an api without call_action, with
\* recall, ban and report all configured
C9_Witness ==
    \E e \in EvIds :
        /\ task[e].verdict = "violation"
        /\ task[e].enforce = "noop"
        /\ event[e].bot = "nocall"
        /\ event[e].group_id # ""
        /\ config.enable_recall /\ config.ban_duration > 0 /\ TargetUsable

(***************************************************************************)
(* C10: transport selection.  The direct HTTP transport is used iff both   *)
(* the API key and the base URL are configured; otherwise the fallback     *)
(* provider, and the call fails with an error when there is no provider.   *)
(* One transport is attempted per audit: a failed direct call is never     *)
(* followed by a fallback call.                                            *)
(***************************************************************************)
DirectConfigured == config.llm_api_key # "" /\ config.llm_base_url # ""

\* C10: the transport called is the one the configuration selects, and only it
C10_TransportSelection ==
    \A e \in EvIds :
        LET f == task[e] IN
        /\ f.gate # "pass" => ClassifierCalls(f) = {}
        /\ f.gate = "pass" =>
              /\ Cardinality(ClassifierCalls(f)) <= 1
              /\ DirectConfigured =>
                    /\ f.log[1] = Entry("http", "call")
                    /\ \A i \in DOMAIN f.log : f.log[i].op # "provider"
              /\ ~DirectConfigured /\ using_provider =>
                    /\ f.log[1] = Entry("provider", "call")
                    /\ \A i \in DOMAIN f.log : f.log[i].op # "http"
              /\ ~DirectConfigured /\ ~using_provider =>
                    /\ f.log = <<>>
                    /\ f.caught = "ValueError"
                    /\ f.pc = "done"

\* the direct call failed while a provider was available: it is not consulted
C10_Witness ==
    \E e \in EvIds :
        /\ Has(task[e], "http", "err")
        /\ using_provider
        /\ task[e].pc = "done"
        /\ Cardinality(ClassifierCalls(task[e])) = 1

(***************************************************************************)
(* C11: verdict parsing.  The verdict is a violation iff the response      *)
(* holds a RESULT label whose value is VIOLATION, or holds no RESULT label *)
(* at all and the word VIOLATION somewhere; a response with a RESULT label *)
(* SAFE is never a violation, even with VIOLATION elsewhere in the text.   *)
(***************************************************************************)
\* the response holds, at word i, a RESULT label with value v
LabelWithValue(text, i, v) ==
    \E j \in 1..Len(text) : LabelAt(text, i, j) /\ Upper(text[j]) = v

\* some RESULT label of the response has value v
SomeLabel(text, v) == \E i \in 1..Len(text) : LabelWithValue(text, i, v)

\* the first RESULT label of the response has value v
LeadingLabel(text, v) ==
    \E i \in 1..Len(text) :
        /\ LabelWithValue(text, i, v)
        /\ \A h \in 1..(i - 1) : \A w \in {"VIOLATION", "SAFE"} : ~LabelWithValue(text, h, w)

NoLabel(text) == \A w \in {"VIOLATION", "SAFE"} : ~SomeLabel(text, w)

WordAnywhere(text) == \E i \in 1..Len(text) : Upper(text[i]) = "VIOLATION"

\* C11 as amended: the first RESULT label decides; without any label the word
\* VIOLATION anywhere decides; a response whose first label is SAFE is never a
\* violation
C11_VerdictParsing ==
    \A e \in EvIds :
        LET f == task[e]
            t == f.response.text
        IN f.response.kind = "text" =>
            /\ f.verdict \in {"violation", "safe"}
            /\ f.verdict = "violation" <=>
                  (LeadingLabel(t, "VIOLATION") \/ (NoLabel(t) /\ WordAnywhere(t)))
            /\ LeadingLabel(t, "SAFE") => f.verdict = "safe"

\* C11 as stated: any RESULT label with value VIOLATION makes a violation, any
\* RESULT label with value SAFE excludes one
C11_AsStated ==
    \A e \in EvIds :
        LET f == task[e]
            t == f.response.text
        IN f.response.kind = "text" =>
            /\ f.verdict = "violation" <=>
                  (SomeLabel(t, "VIOLATION") \/ (NoLabel(t) /\ WordAnywhere(t)))
            /\ SomeLabel(t, "SAFE") => f.verdict = "safe"

\* a response labelled SAFE that mentions VIOLATION later is parsed as safe
C11_Witness ==
    \E e \in EvIds :
        /\ task[e].response.text = <<"RESULT:", " ", "SAFE", "\n", "VIOLATION">>
        /\ task[e].verdict = "safe"
        /\ task[e].pc = "done"

(***************************************************************************)
(* C12: silent operation.  The only backend actions ever invoked are       *)
(* delete_msg, set_group_ban and send_private_msg; send_private_msg is     *)
(* addressed to the configured report target id only; when the pipeline    *)
(* stops at a gate or the classifier fails, no backend action is invoked.  *)
(***************************************************************************)
DigitChar(d) == CHOOSE c \in Digits : DigitValue(c) = d

\* the decimal writing of a natural number
RECURSIVE Decimal(_)
Decimal(n) ==
    IF n < 10 THEN <<DigitChar(n)>>
    ELSE Decimal(n \div 10) \o <<DigitChar(n % 10)>>

NotBlank(c) == c # " "

\* the configured report target id as written, blanks aside
ConfiguredTarget == SelectSeq(config.report_target_id, NotBlank)

C12_SilentOperation ==
    \A e \in EvIds :
        LET f == task[e] IN
        /\ \A i \in DOMAIN f.log : f.log[i].op \in BackendOps \cup ClassifierOps
        /\ Has(f, "send_private_msg", "call") =>
              /\ config.report_target_id # <<>>
              /\ Decimal(f.report.target) = ConfiguredTarget
        /\ f.gate \notin {"none", "pass"} => f.log = <<>> /\ f.pc = "done"
        /\ ClassifierFailed(e) => BackendCalls(f) = {}

\* a report delivered to the target written " 10 " in the configuration
C12_Witness ==
    \E e \in EvIds :
        /\ Has(task[e], "send_private_msg", "ok")
        /\ config.report_target_id = TargetPadded
        /\ task[e].report.target = 10

(***************************************************************************)
(* C13: image extraction.  The images passed to the classifier are exactly *)
(* the message's Image components with a non-empty URL whose query-        *)
(* stripped, lowercased form does not end in ".gif", in message order and  *)
(* with duplicates kept; no such GIF is sent to the classifier or used as  *)
(* evidence.                                                               *)
(***************************************************************************)
\* the length of the url without its query string
PathLen(url) ==
    IF \A i \in 1..Len(url) : url[i] # "?" THEN Len(url)
    ELSE (CHOOSE i \in 1..Len(url) :
             url[i] = "?" /\ \A j \in 1..(i - 1) : url[j] # "?") - 1

\* the path of the url ends in ".gif", in any letter case
EndsInGif(url) ==
    LET n == PathLen(url) IN
    /\ n >= 4
    /\ url[n - 3] = "."
    /\ url[n - 2] \in {"g", "G"}
    /\ url[n - 1] \in {"i", "I"}
    /\ url[n] \in {"f", "F"}

IsStill(c) == c.type = "Image" /\ c.url # <<>> /\ ~EndsInGif(c.url)

\* the urls of the still images of a message, in message order
StillUrls(message) ==
    LET kept == SelectSeq(message, IsStill) IN [i \in 1..Len(kept) |-> kept[i].url]

C13_ImageExtraction ==
    \A e \in EvIds :
        LET f == task[e] IN
        /\ f.gate \in {"noimage", "sample", "norule", "pass"} =>
              f.image_urls = StillUrls(event[e].message)
        /\ ClassifierCalls(f) # {} =>
              /\ f.image_urls = StillUrls(event[e].message)
              /\ \A i \in DOMAIN f.image_urls : ~EndsInGif(f.image_urls[i])
        /\ f.violation_img_url # <<>> => ~EndsInGif(f.violation_img_url)
        /\ f.report.file # <<>> => ~EndsInGif(f.report.file)

\* an upper-case GIF is dropped and the image after it reaches the classifier
C13_Witness ==
    \E e \in EvIds :
        /\ event[e].message = <<Image(UrlGifUpper), Image(UrlPngQueryGif)>>
        /\ ClassifierCalls(task[e]) # {}
        /\ task[e].image_urls = <<UrlPngQueryGif>>

(***************************************************************************)
(* C14: evidence image.  Whenever a report is sent, the image it carries   *)
(* is the first Image component in message order with a non-empty,         *)
(* non-GIF URL; with a .gif image before or after a .png image, the .png.  *)
(***************************************************************************)
FirstStill(message) ==
    message[CHOOSE i \in DOMAIN message :
                /\ IsStill(message[i])
                /\ \A j \in 1..(i - 1) : ~IsStill(message[j])].url

C14_EvidenceIsFirstStill ==
    \A e \in EvIds :
        LET f == task[e] IN
        /\ Has(f, "send_private_msg", "call") =>
              f.report.file = FirstStill(event[e].message)
        /\ f.enforce # "none" =>
              f.pc = "start" \/ f.violation_img_url \in {<<>>, FirstStill(event[e].message)}

\* a report on a message of a .gif followed by a .png carries the .png
C14_Witness ==
    \E e \in EvIds :
        /\ event[e].message = <<Image(UrlGif), Image(UrlPng)>>
        /\ Has(task[e], "send_private_msg", "ok")
        /\ task[e].report.file = UrlPng

(***************************************************************************)
(* C15: recall guard.  During enforcement with an action-invocation        *)
(* capability, delete_msg is invoked iff recall is enabled, the event is a *)
(* group event and a message identifier is resolvable; it is never invoked *)
(* for a private event, and recalled is true only after that invocation    *)
(* returned without error.                                                 *)
(***************************************************************************)
\* enforce_penalty went past its capability probe
Enforcing(f) == f.enforce \notin {"none", "noop"}

GroupEvent(e) == event[e].group_id # ""
MessageIdResolvable(e) == event[e].has_message_id /\ event[e].message_id # ""

C15_RecallGuard ==
    \A e \in EvIds :
        LET f == task[e] IN
        /\ Enforcing(f) =>
              (Has(f, "delete_msg", "call") <=>
                  config.enable_recall /\ GroupEvent(e) /\ MessageIdResolvable(e))
        /\ ~Enforcing(f) \/ ~GroupEvent(e) => ~Has(f, "delete_msg", "call")
        /\ Has(f, "delete_msg", "call") => f.delete_arg = event[e].message_id
        /\ f.recalled <=> Has(f, "delete_msg", "ok")

\* a recall that succeeded on the message id of a group event
C15_Witness ==
    \E e \in EvIds :
        /\ task[e].recalled
        /\ task[e].delete_arg = "m1"
        /\ GroupEvent(e)
        /\ task[e].pc = "done"

(***************************************************************************)
(* C16: ban guard.  During enforcement with an action-invocation           *)
(* capability, set_group_ban is invoked iff the configured mute duration   *)
(* is > 0 and the event is a group event, with the event's group id and    *)
(* sender id and the configured duration; a duration of 0 disables the     *)
(* ban, a private event is never banned, and banned is true only after     *)
(* that invocation returned without error.                                 *)
(***************************************************************************)
C16_BanGuard ==
    \A e \in EvIds :
        LET f == task[e] IN
        /\ Enforcing(f) /\ f.pc # "await_recall" =>
              (Has(f, "set_group_ban", "call") <=>
                  config.ban_duration > 0 /\ GroupEvent(e))
        /\ Has(f, "set_group_ban", "call") =>
              /\ Enforcing(f) /\ config.ban_duration > 0 /\ GroupEvent(e)
              /\ f.ban_arg = [group_id |-> event[e].group_id,
                              user_id |-> event[e].user_id,
                              duration |-> config.ban_duration]
        /\ f.banned <=> Has(f, "set_group_ban", "ok")

\* a ban of 60 that succeeded in a group
C16_Witness ==
    \E e \in EvIds :
        /\ task[e].banned
        /\ task[e].ban_arg.duration = 60
        /\ GroupEvent(e)
        /\ task[e].pc = "done"

(***************************************************************************)
(* C17: no retries.  While one event is handled, the classifier transport  *)
(* is called at most once and each of delete_msg, set_group_ban and        *)
(* send_private_msg is invoked at most once, whether it succeeds or fails. *)
(***************************************************************************)
\* how many times the task invoked op
Calls(f, op) == Cardinality({i \in DOMAIN f.log : f.log[i] = Entry(op, "call")})

C17_NoRetries ==
    \A e \in EvIds :
        LET f == task[e] IN
        /\ Cardinality(ClassifierCalls(f)) <= 1
        /\ \A op \in BackendOps : Calls(f, op) <= 1
        /\ \A i \in DOMAIN f.log :
              f.log[i].ph = "err" =>
                  \A j \in (i + 1)..Len(f.log) : f.log[j].op # f.log[i].op

\* every backend action failed and the task ended with one call of each
C17_Witness ==
    \E e \in EvIds :
        /\ task[e].pc = "done"
        /\ \A op \in BackendOps : Has(task[e], op, "err") /\ Calls(task[e], op) = 1

(***************************************************************************)
(* C18: sampler.  An event past the scope and image gates is audited iff   *)
(* the random draw is <= the configured probability (a probability of 1.0  *)
(* always audits); exactly one draw is taken for such an event, and none   *)
(* for an event stopped by the scope gate, the sticker hard stop or an     *)
(* empty image list.                                                       *)
(***************************************************************************)
\* check_probability 1.0, in tenths
AlwaysAudit == config.check_probability = 10

C18_Sampler ==
    \A e \in EvIds :
        LET f == task[e] IN
        f.pc # "start" =>
            /\ f.gate \in {"sample", "norule", "pass"} =>
                  /\ Len(f.draws) = 1
                  /\ f.gate = "sample" <=> ~(f.draws[1] <= config.check_probability)
            /\ f.gate \in {"scope", "sticker", "empty", "noimage"} => f.draws = <<>>
            /\ ~ScopedIn(e) \/ StillUrls(event[e].message) = <<>> => f.draws = <<>>
            /\ ClassifierCalls(f) # {} =>
                  Len(f.draws) = 1 /\ f.draws[1] <= config.check_probability
            /\ AlwaysAudit => f.gate # "sample"

\* a draw equal to the probability is audited
C18_Witness ==
    \E e \in EvIds :
        /\ task[e].draws = <<5>>
        /\ config.check_probability = 5
        /\ ClassifierCalls(task[e]) # {}

(***************************************************************************)
(* C19: concurrent events are isolated.  When two events are handled       *)
(* concurrently and interleave at their remote calls, the image list,      *)
(* verdict, recalled / banned flags, report content and actions invoked    *)
(* for each event are those of a handling of that event alone; handling    *)
(* an event never modifies the shared configuration.                       *)
(***************************************************************************)
\* the group event and the private event that are handled together
GroupEvents ==
    EventsOf({"g1"}, {"u1"}, {RawAbsent}, {RawAbsent}, {<<Image(UrlPng)>>},
             {"ok"}, {"absent"}, {TRUE}, {"m1"})
PrivateEvents ==
    EventsOf({""}, {"u2"}, {RawAbsent}, {RawAbsent},
             {<<Image(UrlGif), Image(UrlJpg)>>}, {"absent"}, {"ok"}, {TRUE}, {"m2"})

\* one plugin instance, two events in flight
ConcInit ==
    /\ config \in ConfigsOf({{"0"}}, {{"0"}}, {10}, {<<"t">>}, {<<>>},
                            {"", "k"}, {"u"}, BOOLEAN, {60}, {TargetTen})
    /\ using_provider = TRUE
    /\ event \in {[e \in {1, 2} |-> IF e = 1 THEN a ELSE b] :
                     a \in GroupEvents, b \in PrivateEvents}
    /\ task = [e \in DOMAIN event |-> InitFrame]

ConcSpec == ConcInit /\ [][Next]_vars

\* the frames one resumption of the handler can lead to from frame f
StepsOf(cfg, prov, ev, f) ==
    CASE f.pc = "start" -> {StartFrame(cfg, prov, ev, f, d) : d \in Draws}
      [] f.pc = "await_http" ->
            {ClassifierAnswer(cfg, ev, f, "http", a) : a \in HttpAnswers}
      [] f.pc = "await_provider" ->
            {ClassifierAnswer(cfg, ev, f, "provider", a) : a \in ProviderAnswers}
      [] f.pc = "await_recall" -> {AfterRecall(cfg, ev, f, ok) : ok \in BOOLEAN}
      [] f.pc = "await_ban" -> {AfterBan(cfg, ev, f, ok) : ok \in BOOLEAN}
      [] f.pc = "await_report" -> {AfterReport(cfg, ev, f, ok) : ok \in BOOLEAN}
      [] OTHER -> {}

\* a step resumes one task, takes it to a frame that the handling of its
\* event alone reaches from the task's own frame, and leaves the other task
\* and the shared configuration as they were
AloneStep ==
    /\ config' = config /\ using_provider' = using_provider /\ event' = event
    /\ \E e \in EvIds :
          /\ task'[e] \in StepsOf(config, using_provider, event[e], task[e])
          /\ \A o \in EvIds \ {e} : task'[o] = task[o]

C19_ConcurrentIsolation == [][AloneStep]_vars

\* both events are in flight at once: the group event awaits its ban after a
\* failed recall while the private event's report has been delivered
C19_Witness ==
    /\ Cardinality(EvIds) = 2
    /\ task[1].pc = "await_ban" /\ Has(task[1], "delete_msg", "err")
    /\ task[2].pc = "done" /\ Has(task[2], "send_private_msg", "ok")
    /\ task[2].report.file = UrlJpg
    /\ task[1].violation_img_url = UrlPng

(***************************************************************************)
(* C20: enforcement receipt.  enforce_penalty keeps the two outcome flags  *)
(* recalled and banned, and no flag for the report; each flag is set to    *)
(* true only on confirmed success of its own action and, once set, is      *)
(* never reset to false.                                                   *)
(***************************************************************************)
\* the action whose success a receipt field records
ActionOf(field) ==
    CASE field = "recalled" -> "delete_msg"
      [] field = "banned" -> "set_group_ban"
      [] field = "reportSent" -> "send_private_msg"

SetOnlyOnSuccess(f, fields) ==
    /\ DOMAIN ReceiptOf(f) = fields
    /\ \A k \in fields : ReceiptOf(f)[k] => Has(f, ActionOf(k), "ok")

NeverReset ==
    \A e \in EvIds :
        \A k \in DOMAIN ReceiptOf(task[e]) : ReceiptOf(task[e])[k] => ReceiptOf(task'[e])[k]

====
